---- MODULE Spec2Model ----
(***************************************************************************)
(* Model of "Python Server/server.py": a websockets server whose           *)
(* per-connection coroutine handle_connection reads frames, decodes them   *)
(* with cv2.imdecode, runs the YOLO model on them and sends the detections *)
(* back as JSON.  All coroutines run on one asyncio event loop.            *)
(***************************************************************************)
EXTENDS Integers, Sequences, FiniteSets, TLC

\* The connections the listener may accept (one handle_connection task each).
Conns == {1, 2}

\* Frames sent by all clients together.
MaxFrames == 3

\* Fixed-point denominator of the model's float coordinates (1/Scale pixel).
Scale == 2
\* Width and height of the decoded image, in pixels.
ImgW == 3
ImgH == 2

\* Kinds of inbound binary message: a zero-length buffer, bytes that are not
\* an image, and two different valid encoded images.
Kinds == {"empty", "bad", "imgA", "imgB"}

NoMsg == [id |-> 0, kind |-> "none"]
NoTask == 0

VARIABLES
  pc,          \* position of each handle_connection task
  client,      \* what the client has done to the connection
  inbox,       \* messages received and not yet taken by `async for`
  nsent,       \* frames each client has sent so far
  message,     \* handle_connection's local `message`
  frame,       \* handle_connection's local `frame`
  results,     \* handle_connection's local `results`
  detections,  \* handle_connection's local `detections`
  sent,        \* messages written by websocket.send, in order
  taken,       \* messages taken from the socket by `async for`
  decoded,     \* messages whose decode produced an image
  skipped,     \* messages skipped after a failed decode
  err,         \* exception that left handle_connection, if any
  running      \* the task the event loop is executing, or NoTask

vars == <<pc, client, inbox, nsent, message, frame, results, detections,
          sent, taken, decoded, skipped, err, running>>

\* The synchronous part of one loop iteration (lines 23-55).
Busy == {"decode", "infer", "build"}
\* The handler's loop has not ended.
Alive == {"recv", "decode", "infer", "build", "send"}

------------------------------------------------------------------------------
\* Pure parts of the handler.

\* int(): truncation toward zero of a coordinate given in 1/Scale pixels.
ToInt(x) == IF x >= 0 THEN x \div Scale ELSE -((-x) \div Scale)

\* cv2.imdecode on a non-empty buffer: the image, or None.
imdecode(kind) == IF kind \in {"imgA", "imgB"} THEN kind ELSE "None"

\* The class-index table r.names.
names == <<"red", "green">>

\* model(frame): the boxes (corner points in 1/Scale pixels, class index)
\* the deterministic model reports for each image.
Model(img) ==
  IF img = "imgA" THEN << [xyxy |-> <<1, 1, 5, 3>>, cls |-> 1] >>
  ELSE IF img = "imgB" THEN << [xyxy |-> <<0, 0, 3, 4>>, cls |-> 2],
                               [xyxy |-> <<3, 1, 6, 4>>, cls |-> 1] >>
  ELSE << >>

\* Width (height) of a box from its integer corner coordinates.
BoxExtentXYXY(a1, a2) == a2
BoxExtent(a1, a2) == a2 - a1

\* One detection record from one box of the model (lines 42-52).
Detection(b) ==
  LET x1 == ToInt(b.xyxy[1])
      y1 == ToInt(b.xyxy[2])
      x2 == ToInt(b.xyxy[3])
      y2 == ToInt(b.xyxy[4])
  IN [box |-> <<x1, y1, BoxExtent(x1, x2), BoxExtent(y1, y2)>>,
      color |-> names[b.cls]]

RECURSIVE AppendAll(_, _)
AppendAll(dets, bs) ==
  IF bs = << >> THEN dets
  ELSE AppendAll(Append(dets, Detection(Head(bs))), Tail(bs))

\* The detections list of one frame (lines 37-52): started empty, one
\* record appended per box.
BuildDetectionsCarried(old, bs) == AppendAll(old, bs)
BuildDetections(old, bs) == AppendAll(<< >>, bs)

\* What `async for` takes from the received messages: the oldest one.
DequeueNewest(q) == [msg |-> q[Len(q)], rest |-> SubSeq(q, 1, Len(q) - 1)]
Dequeue(q) == [msg |-> Head(q), rest |-> Tail(q)]

\* The event loop resumes a task only when no task is executing.
CanResumeAlways == TRUE
CanResume == running = NoTask

\* The handler reaches `async for` again only after websocket.send returned.
AtAsyncForEarly(c) == pc[c] \in {"recv", "send"}
AtAsyncFor(c) == pc[c] = "recv"

------------------------------------------------------------------------------
Init ==
  /\ pc = [c \in Conns |-> "idle"]
  /\ client = [c \in Conns |-> "open"]
  /\ inbox = [c \in Conns |-> << >>]
  /\ nsent = [c \in Conns |-> 0]
  /\ message = [c \in Conns |-> NoMsg]
  /\ frame = [c \in Conns |-> "None"]
  /\ results = [c \in Conns |-> << >>]
  /\ detections = [c \in Conns |-> << >>]
  /\ sent = [c \in Conns |-> << >>]
  /\ taken = [c \in Conns |-> 0]
  /\ decoded = [c \in Conns |-> 0]
  /\ skipped = [c \in Conns |-> 0]
  /\ err = [c \in Conns |-> "none"]
  /\ running = NoTask

RECURSIVE Sum(_, _)
Sum(f, S) == IF S = {} THEN 0
             ELSE LET x == CHOOSE y \in S : TRUE IN f[x] + Sum(f, S \ {x})

\* websockets.serve accepts a connection and starts handle_connection on it.
Accept(c) ==
  /\ pc[c] = "idle"
  /\ CanResume
  /\ pc' = [pc EXCEPT ![c] = "recv"]
  /\ UNCHANGED <<client, inbox, nsent, message, frame, results, detections,
                 sent, taken, decoded, skipped, err, running>>

\* A connected client sends one binary message.
ClientSend(c, k) ==
  /\ pc[c] # "idle"
  /\ client[c] = "open"
  /\ Sum(nsent, Conns) < MaxFrames
  /\ nsent' = [nsent EXCEPT ![c] = @ + 1]
  /\ inbox' = [inbox EXCEPT ![c] = Append(@, [id |-> nsent[c] + 1, kind |-> k])]
  /\ UNCHANGED <<pc, client, message, frame, results, detections, sent, taken,
                 decoded, skipped, err, running>>

\* The client closes the connection: with a close frame (how = "closedOK")
\* or by dropping it (how = "closedErr").
ClientClose(c, how) ==
  /\ pc[c] # "idle"
  /\ client[c] = "open"
  /\ client' = [client EXCEPT ![c] = how]
  /\ UNCHANGED <<pc, inbox, nsent, message, frame, results, detections, sent,
                 taken, decoded, skipped, err, running>>

\* `async for message in websocket` (line 21): the next message; or the end
\* of the iteration after a normal close; or ConnectionClosedError, caught
\* at line 58.
Recv(c) ==
  /\ AtAsyncFor(c)
  /\ CanResume
  /\ \/ /\ inbox[c] # << >>
        /\ message' = [message EXCEPT ![c] = Dequeue(inbox[c]).msg]
        /\ inbox' = [inbox EXCEPT ![c] = Dequeue(@).rest]
        /\ taken' = [taken EXCEPT ![c] = @ + 1]
        /\ pc' = [pc EXCEPT ![c] = "decode"]
        /\ running' = c
     \/ /\ inbox[c] = << >>
        /\ client[c] # "open"
        /\ pc' = [pc EXCEPT ![c] = "done"]
        /\ UNCHANGED <<message, inbox, taken, running>>
  /\ UNCHANGED <<client, nsent, frame, results, detections, sent, decoded,
                 skipped, err>>

\* Lines 26-31: np.frombuffer and cv2.imdecode, then the None check.  On a
\* zero-length buffer imdecode either returns None or raises cv2.error
\* (OpenCV 4 asserts !buf.empty()), depending on the build.
Decode(c) ==
  /\ pc[c] = "decode"
  /\ running = c
  /\ \/ /\ imdecode(message[c].kind) # "None"
        /\ frame' = [frame EXCEPT ![c] = imdecode(message[c].kind)]
        /\ decoded' = [decoded EXCEPT ![c] = @ + 1]
        /\ pc' = [pc EXCEPT ![c] = "infer"]
        /\ UNCHANGED <<skipped, err, running>>
     \/ /\ imdecode(message[c].kind) = "None"
        /\ frame' = [frame EXCEPT ![c] = "None"]
        /\ skipped' = [skipped EXCEPT ![c] = @ + 1]
        /\ pc' = [pc EXCEPT ![c] = "recv"]
        /\ running' = NoTask
        /\ UNCHANGED <<decoded, err>>
     \/ /\ message[c].kind = "empty"
        /\ err' = [err EXCEPT ![c] = "cv2.error"]
        /\ pc' = [pc EXCEPT ![c] = "raised"]
        /\ running' = NoTask
        /\ UNCHANGED <<frame, decoded, skipped>>
  /\ UNCHANGED <<client, inbox, nsent, message, results, detections, sent, taken>>

\* Line 34: results = model(frame); an exception of the model is not caught
\* by the handler's `except ConnectionClosedError`.
Infer(c) ==
  /\ pc[c] = "infer"
  /\ running = c
  /\ \/ /\ results' = [results EXCEPT ![c] = Model(frame[c])]
        /\ pc' = [pc EXCEPT ![c] = "build"]
        /\ UNCHANGED <<err, running>>
     \/ /\ err' = [err EXCEPT ![c] = "InferenceError"]
        /\ pc' = [pc EXCEPT ![c] = "raised"]
        /\ running' = NoTask
        /\ UNCHANGED results
  /\ UNCHANGED <<client, inbox, nsent, message, frame, detections, sent, taken,
                 decoded, skipped>>

\* Lines 37-56: the detections list is built, then the task awaits
\* websocket.send.
Build(c) ==
  /\ pc[c] = "build"
  /\ running = c
  /\ detections' = [detections EXCEPT ![c] = BuildDetections(@, results[c])]
  /\ pc' = [pc EXCEPT ![c] = "send"]
  /\ running' = NoTask
  /\ UNCHANGED <<client, inbox, nsent, message, frame, results, sent, taken,
                 decoded, skipped, err>>

\* Line 56: websocket.send completes; on a closed connection it raises
\* ConnectionClosedOK (normal close, not caught) or ConnectionClosedError
\* (caught at line 58).
Send(c) ==
  /\ pc[c] = "send"
  /\ CanResume
  /\ \/ /\ client[c] = "open"
        /\ sent' = [sent EXCEPT ![c] =
                      Append(@, [id |-> message[c].id, kind |-> message[c].kind,
                                 detections |-> detections[c]])]
        /\ pc' = [pc EXCEPT ![c] = "recv"]
        /\ UNCHANGED err
     \/ /\ client[c] = "closedOK"
        /\ err' = [err EXCEPT ![c] = "ConnectionClosedOK"]
        /\ pc' = [pc EXCEPT ![c] = "raised"]
        /\ UNCHANGED sent
     \/ /\ client[c] = "closedErr"
        /\ pc' = [pc EXCEPT ![c] = "done"]
        /\ UNCHANGED <<sent, err>>
  /\ UNCHANGED <<client, inbox, nsent, message, frame, results, detections,
                 taken, decoded, skipped, running>>

Next ==
  \E c \in Conns :
    \/ Accept(c)
    \/ \E k \in Kinds : ClientSend(c, k)
    \/ \E how \in {"closedOK", "closedErr"} : ClientClose(c, how)
    \/ Recv(c)
    \/ Decode(c)
    \/ Infer(c)
    \/ Build(c)
    \/ Send(c)

Spec == Init /\ [][Next]_vars

------------------------------------------------------------------------------
\* The result building of one frame on every output the model can give.

\* Boxes the model reports for an ImgW x ImgH image: two corner points with
\* x1 <= x2 and y1 <= y2, clipped to the image, in 1/Scale pixels.
ModelBoxes ==
  {b \in {[xyxy |-> <<x1, y1, x2, y2>>, cls |-> k] :
            x1 \in 0..(ImgW * Scale), y1 \in 0..(ImgH * Scale),
            x2 \in 0..(ImgW * Scale), y2 \in 0..(ImgH * Scale),
            k \in 1..Len(names)} :
     b.xyxy[1] <= b.xyxy[3] /\ b.xyxy[2] <= b.xyxy[4]}

InitBox ==
  /\ pc = [c \in Conns |-> IF c = 1 THEN "build" ELSE "idle"]
  /\ client = [c \in Conns |-> "open"]
  /\ inbox = [c \in Conns |-> << >>]
  /\ nsent = [c \in Conns |-> IF c = 1 THEN 1 ELSE 0]
  /\ message = [c \in Conns |-> IF c = 1 THEN [id |-> 1, kind |-> "imgA"] ELSE NoMsg]
  /\ frame = [c \in Conns |-> IF c = 1 THEN "imgA" ELSE "None"]
  /\ \E b \in ModelBoxes :
       results = [c \in Conns |-> IF c = 1 THEN <<b>> ELSE << >>]
  /\ detections = [c \in Conns |-> << >>]
  /\ sent = [c \in Conns |-> << >>]
  /\ taken = [c \in Conns |-> IF c = 1 THEN 1 ELSE 0]
  /\ decoded = [c \in Conns |-> IF c = 1 THEN 1 ELSE 0]
  /\ skipped = [c \in Conns |-> 0]
  /\ err = [c \in Conns |-> "none"]
  /\ running = 1

NextBox == \E c \in Conns : Build(c)

SpecBox == InitBox /\ [][NextBox]_vars

------------------------------------------------------------------------------
\* Properties.

\* The message being handled is not a valid image encoding.
UndecodableMessage(c) == message[c].kind \in {"empty", "bad"}

\* C1: on a connection whose client is still connected, whenever the handler
\* is not in the middle of a frame the number of results sent equals the
\* number of frames that decoded successfully, and a frame that failed to
\* decode has not ended the handler.
C1_OneResultPerDecodedFrame ==
  \A c \in Conns :
    (client[c] = "open" /\ pc[c] \in {"recv", "done", "raised"}) =>
      /\ Len(sent[c]) = decoded[c]
      /\ UndecodableMessage(c) => pc[c] = "recv"

\* C2: on each connection the results are sent in the order in which their
\* frames were received.
C2_OrderPreserved ==
  \A c \in Conns :
    \A i, j \in 1..Len(sent[c]) : i < j => sent[c][i].id < sent[c][j].id

\* C2 witness: a connection has answered two frames while the other
\* connection was answered too.
C2_Witness ==
  \E c, d \in Conns : c # d /\ Len(sent[c]) >= 2 /\ Len(sent[d]) >= 1

\* C3: sends and receives alternate on each connection: every message taken
\* is answered, skipped after a failed decode, or the single one in progress,
\* so the messages sent never outnumber the messages taken.
C3_Alternation ==
  \A c \in Conns :
    /\ Len(sent[c]) <= taken[c]
    /\ pc[c] \in Alive =>
         Len(sent[c]) + skipped[c]
           + (IF pc[c] \in Busy \cup {"send"} THEN 1 ELSE 0) = taken[c]

\* C3 witness: a connection that answered one frame and skipped another is
\* about to send the response to a third.
C3_Witness ==
  \E c \in Conns :
    Len(sent[c]) = 1 /\ skipped[c] = 1 /\ taken[c] = 3 /\ pc[c] = "send"

\* C4: a message that is not a valid image encoding, a zero-length one
\* included, never makes an exception leave the handler.
C4_DecodeFailureSkipped ==
  \A c \in Conns : UndecodableMessage(c) => pc[c] # "raised"

\* C5: a client's disconnect never ends the handler with an exception.
C5_DisconnectEndsCleanly ==
  \A c \in Conns : client[c] # "open" => err[c] # "ConnectionClosedOK"

\* C6: no error leaves handle_connection.
C6_NoErrorEscapes ==
  \A c \in Conns : pc[c] # "raised" /\ err[c] = "none"

\* C7: the handler of an accepted connection whose client has not
\* disconnected is still running its loop.
C7_ClientDrivenLifetime ==
  \A c \in Conns : (pc[c] # "idle" /\ client[c] = "open") => pc[c] \in Alive

C9_SameFrameSameDetections ==
  \A c, d \in Conns :
    \A i \in 1..Len(sent[c]) :
      \A j \in 1..Len(sent[d]) :
        sent[c][i].kind = sent[d][j].kind =>
          sent[c][i].detections = sent[d][j].detections

\* C9 witness: the same frame was answered twice in sequence on one
\* connection, with detections in it.
C9_Witness ==
  \E c \in Conns :
    /\ Len(sent[c]) >= 2
    /\ sent[c][1].kind = sent[c][2].kind
    /\ sent[c][2].id = sent[c][1].id + 1
    /\ sent[c][1].detections # << >>

\* C10: at most one connection is inside the decode, inference and
\* result-building steps, that connection is the one the event loop is
\* executing, and every other running handler is suspended at the wait for
\* the next message or at the send.
C10_InferenceSerialized ==
  /\ Cardinality({c \in Conns : pc[c] \in Busy}) <= 1
  /\ \A c \in Conns :
       /\ pc[c] \in Busy => running = c
       /\ (pc[c] \in Alive /\ running # c) => pc[c] \in {"recv", "send"}

\* C10 witness: one connection is in the inference step while the other has
\* a message waiting and is not resumed.
C10_Witness ==
  \E c, d \in Conns :
    c # d /\ pc[c] = "infer" /\ pc[d] = "recv" /\ inbox[d] # << >>

====
